---- MODULE Spec2Model ----
(***************************************************************************)
(* Model of src/explore/exploration.h: the four exploration operations     *)
(* generate_epsilon_greedy, generate_softmax, generate_bag and             *)
(* enforce_minimum_probability, applied by a caller to a buffer it owns.   *)
(*                                                                         *)
(* Numbers are exact rationals <<numerator, denominator>> in lowest terms  *)
(* with a positive denominator, so every property below is a statement in  *)
(* exact arithmetic; float rounding is not modelled.  An iterator is the   *)
(* 0-based offset of the element it points at, so the element *(first + k) *)
(* of a buffer buf is buf[first + k + 1].                                  *)
(***************************************************************************)
EXTENDS Integers, Sequences, FiniteSets

VARIABLES pdf, call

vars == <<pdf, call>>

\* ------------------------------------------------------------- bounds
MaxLen == 3
MaxScores == 2
MaxDen == 3

\* ------------------------------------------------------------- status codes
S_EXPLORATION_OK == 0
E_EXPLORATION_BAD_RANGE == 1
E_EXPLORATION_EMPTY_PDF == 2

\* ------------------------------------------------------------- exact arithmetic
Abs(n) == IF n < 0 THEN -n ELSE n

RECURSIVE Gcd(_, _)
Gcd(a, b) == IF b = 0 THEN a ELSE Gcd(b, a % b)

\* The rational n/d in lowest terms (d > 0).
Rat(n, d) == LET g == Gcd(Abs(n), d) IN <<n \div g, d \div g>>

Zero == <<0, 1>>
One == <<1, 1>>
\* The value a float division of a positive number by zero yields.
Inf == <<1, 0>>

RAdd(a, b) == Rat(a[1] * b[2] + b[1] * a[2], a[2] * b[2])
RSub(a, b) == Rat(a[1] * b[2] - b[1] * a[2], a[2] * b[2])
RMul(a, b) == Rat(a[1] * b[1], a[2] * b[2])
RDiv(a, b) == IF b[1] = 0 THEN Inf
              ELSE IF b[1] < 0 THEN Rat(-(a[1] * b[2]), -(a[2] * b[1]))
              ELSE Rat(a[1] * b[2], a[2] * b[1])
RLt(a, b) == a[1] * b[2] < b[1] * a[2]
RLe(a, b) == a[1] * b[2] <= b[1] * a[2]
RGt(a, b) == RLt(b, a)

RECURSIVE RSum(_)
RSum(s) == IF s = <<>> THEN Zero ELSE RAdd(s[1], RSum(Tail(s)))

RECURSIVE RPow(_, _)
RPow(b, k) == IF k = 0 THEN One ELSE RMul(b, RPow(b, k - 1))

Min(a, b) == IF a < b THEN a ELSE b

\* The elements [first, last) of a buffer, as a sequence.
Range(buf, first, last) == [k \in 1..(last - first) |-> buf[first + k]]

\* ------------------------------------------------------------- epsilon greedy
ClampTopFirst(top_action, num_actions) ==
    IF top_action >= num_actions THEN 0 ELSE top_action

ClampTop(top_action, num_actions) ==
    IF top_action >= num_actions THEN num_actions - 1 ELSE top_action

generate_epsilon_greedy(epsilon, top_action, buf, pdf_first, pdf_last) ==
    IF pdf_last < pdf_first
    THEN [ret |-> E_EXPLORATION_BAD_RANGE, pdf |-> buf]
    ELSE LET num_actions == pdf_last - pdf_first IN
         IF num_actions = 0
         THEN [ret |-> E_EXPLORATION_EMPTY_PDF, pdf |-> buf]
         ELSE LET top == ClampTop(top_action, num_actions)
                  prob == RDiv(epsilon, Rat(num_actions, 1))
                  filled == [i \in 1..Len(buf) |->
                               IF pdf_first < i /\ i <= pdf_last THEN prob ELSE buf[i]]
              IN [ret |-> S_EXPLORATION_OK,
                  pdf |-> [filled EXCEPT ![pdf_first + top + 1] =
                                            RAdd(@, RSub(One, epsilon))]]

\* ------------------------------------------------------------- softmax
\* exp(lambda * x) for an integer x, where lambda is held as the rational
\* exp_lambda = e^lambda (1 for lambda = 0, 2 for lambda = ln 2, ...).
Exp(exp_lambda, x) ==
    IF x >= 0 THEN RPow(exp_lambda, x) ELSE RPow(RDiv(One, exp_lambda), -x)

RECURSIVE SeqMax(_)
SeqMax(s) == IF Len(s) = 1 THEN s[1]
             ELSE LET m == SeqMax(Tail(s)) IN IF s[1] < m THEN m ELSE s[1]

\* *std::max_element(first, last): on an empty range the iterator returned is
\* last, which here is scores_begin itself, an element of the caller's scores.
MaxElement(scores, first, last) ==
    IF first = last THEN scores[first + 1] ELSE SeqMax(Range(scores, first, last))

OverlapScores(num_actions_scores, num_actions_pdf) == num_actions_scores

Overlap(num_actions_scores, num_actions_pdf) == Min(num_actions_scores, num_actions_pdf)

generate_softmax(exp_lambda, scores, scores_begin, scores_last, buf, pdf_first, pdf_last) ==
    IF scores_last < scores_begin \/ pdf_last < pdf_first
    THEN [ret |-> E_EXPLORATION_BAD_RANGE, pdf |-> buf]
    ELSE LET num_actions_scores == scores_last - scores_begin
             num_actions_pdf == pdf_last - pdf_first
             mismatch == num_actions_scores # num_actions_pdf
             scores_new_last ==
                 IF mismatch THEN scores_begin + Overlap(num_actions_scores, num_actions_pdf)
                 ELSE scores_last
             pdf_new_last ==
                 IF mismatch THEN pdf_first + Overlap(num_actions_scores, num_actions_pdf)
                 ELSE pdf_last
             zeroed == [i \in 1..Len(buf) |->
                          IF mismatch /\ pdf_new_last < i /\ i <= pdf_last
                          THEN Zero ELSE buf[i]]
         IN IF num_actions_scores = 0
            THEN [ret |-> E_EXPLORATION_EMPTY_PDF, pdf |-> zeroed]
            ELSE LET max_score == MaxElement(scores, scores_begin, scores_new_last)
                     steps == Min(pdf_new_last - pdf_first, scores_new_last - scores_begin)
                     prob == [k \in 1..steps |->
                                Exp(exp_lambda, scores[scores_begin + k] - max_score)]
                     norm == RSum(prob)
                     written == [i \in 1..Len(buf) |->
                                   IF pdf_first < i /\ i <= pdf_first + steps
                                   THEN prob[i - pdf_first] ELSE zeroed[i]]
                 IN [ret |-> S_EXPLORATION_OK,
                     pdf |-> [i \in 1..Len(buf) |->
                                IF pdf_first < i /\ i <= pdf_new_last
                                THEN RDiv(written[i], norm) ELSE written[i]]]

\* ------------------------------------------------------------- bag
\* std::accumulate(begin, last, 0); the counts of the model stay far below 2^31.
RECURSIVE Accumulate(_)
Accumulate(s) == IF s = <<>> THEN 0 ELSE s[1] + Accumulate(Tail(s))

BagSteps(num_votes, num_actions) == Min(num_votes, num_actions)

generate_bag(top_actions, buf, pdf_first, pdf_last) ==
    IF pdf_last < pdf_first
    THEN [ret |-> E_EXPLORATION_BAD_RANGE, pdf |-> buf]
    ELSE IF pdf_first = pdf_last
    THEN [ret |-> E_EXPLORATION_EMPTY_PDF, pdf |-> buf]
    ELSE LET num_models == Accumulate(top_actions) IN
         IF num_models = 0
         THEN [ret |-> S_EXPLORATION_OK,
               pdf |-> [i \in 1..Len(buf) |->
                          IF i = pdf_first + 1 THEN One
                          ELSE IF pdf_first + 1 < i /\ i <= pdf_last THEN Zero
                          ELSE buf[i]]]
         ELSE LET steps == BagSteps(Len(top_actions), pdf_last - pdf_first) IN
              [ret |-> S_EXPLORATION_OK,
               pdf |-> [i \in 1..Len(buf) |->
                          IF pdf_first < i /\ i <= pdf_first + steps
                          THEN RDiv(Rat(top_actions[i - pdf_first], 1), Rat(num_models, 1))
                          ELSE buf[i]]]

\* ------------------------------------------------------------- minimum probability
\* The literal 0.999 both branches of enforce_minimum_probability compare with.
Threshold == Rat(999, 1000)

\* prob > 0 || (prob == 0 && update_zero_elements)
Eligible(prob, update_zero_elements) ==
    RGt(prob, Zero) \/ (prob = Zero /\ update_zero_elements)

SupportSizeAll(p, update_zero_elements) == Len(p)

\* support_size of the uniform path: num_actions, less the entries equal to 0
\* unless update_zero_elements.
SupportSize(p, update_zero_elements) ==
    IF update_zero_elements THEN Len(p)
    ELSE Len(p) - Cardinality({k \in 1..Len(p) : p[k] = Zero})

FloorUndivided(min_prob, num_actions) == min_prob

\* min_prob /= num_actions
Floor(min_prob, num_actions) == RDiv(min_prob, Rat(num_actions, 1))

RatioUnnormalised(touched_mass, untouched_mass) == RSub(One, touched_mass)

\* ratio = (1.f - touched_mass) / untouched_mass
Ratio(touched_mass, untouched_mass) == RDiv(RSub(One, touched_mass), untouched_mass)

\* The test of the first pass: the entry is raised to the floor.
Touched(prob, min_prob, update_zero_elements) ==
    Eligible(prob, update_zero_elements) /\ RLe(prob, min_prob)

enforce_minimum_probability(min_prob_arg, update_zero_elements, buf, pdf_first, pdf_last) ==
    LET none == [ret |-> S_EXPLORATION_OK, pdf |-> buf, branch |-> "none",
                 touched_mass |-> Zero, untouched_mass |-> Zero,
                 num_actions_touched |-> 0]
    IN
    IF pdf_first = pdf_last
    THEN [none EXCEPT !.ret = E_EXPLORATION_EMPTY_PDF]
    ELSE IF pdf_last < pdf_first
    THEN [none EXCEPT !.ret = E_EXPLORATION_BAD_RANGE]
    ELSE
    LET num_actions == pdf_last - pdf_first
        p == Range(buf, pdf_first, pdf_last)
        InRange(i) == pdf_first < i /\ i <= pdf_last
    IN
    IF RGt(min_prob_arg, Threshold)
    THEN LET support_size == SupportSize(p, update_zero_elements) IN
         [none EXCEPT
            !.branch = "uniform",
            !.pdf = [i \in 1..Len(buf) |->
                       IF InRange(i) /\ (update_zero_elements \/ RGt(buf[i], Zero))
                       THEN RDiv(One, Rat(support_size, 1)) ELSE buf[i]]]
    ELSE
    LET min_prob == Floor(min_prob_arg, num_actions)
        touched == {k \in 1..num_actions : Touched(p[k], min_prob, update_zero_elements)}
        num_actions_touched == Cardinality(touched) % 65536
        touched_mass == RSum([k \in 1..num_actions |->
                                IF k \in touched THEN min_prob ELSE Zero])
        untouched_mass == RSum([k \in 1..num_actions |->
                                  IF k \in touched THEN Zero ELSE p[k]])
        raised == [i \in 1..Len(buf) |->
                     IF InRange(i) /\ (i - pdf_first) \in touched THEN min_prob ELSE buf[i]]
        stats == [none EXCEPT !.touched_mass = touched_mass,
                              !.untouched_mass = untouched_mass,
                              !.num_actions_touched = num_actions_touched]
    IN
    IF ~RGt(touched_mass, Zero)
    THEN [stats EXCEPT !.branch = "unchanged", !.pdf = raised]
    ELSE IF RGt(touched_mass, Threshold)
    THEN LET corrected == RDiv(RSub(One, untouched_mass), Rat(num_actions_touched, 1)) IN
         [stats EXCEPT
            !.branch = "correction",
            !.pdf = [i \in 1..Len(buf) |->
                       IF InRange(i) /\ Touched(raised[i], corrected, update_zero_elements)
                       THEN corrected ELSE raised[i]]]
    ELSE LET ratio == Ratio(touched_mass, untouched_mass) IN
         [stats EXCEPT
            !.branch = "ratio",
            !.pdf = [i \in 1..Len(buf) |->
                       IF InRange(i) /\ RGt(raised[i], min_prob)
                       THEN RMul(raised[i], ratio) ELSE raised[i]]]

\* ------------------------------------------------------------- the caller
\* The caller owns one buffer.  It makes one call on the buffer as it finds
\* it: a generator or the enforcer.  After a generator has returned OK it may
\* apply the enforcer to the result, and after the enforcer has returned OK it
\* may apply the enforcer again with the same arguments.  A caller that
\* receives an error makes no further call.  call records the latest call:
\* its arguments, the buffer before it (pre) and what it returned.

\* Values a caller's buffer holds before the first call: multiples of 1/MaxDen.
Grid == {Rat(k, MaxDen) : k \in 0..MaxDen}

\* The buffers a caller starts from hold non-negative weights of total mass at
\* most 1: zeroed buffers, distributions and parts of distributions.
Buffers == {b \in UNION {[1..n -> Grid] : n \in 0..MaxLen} : RLe(RSum(b), One)}

Epsilons == {Zero, Rat(1, 2), One}

\* e^lambda for lambda = 0, ln 2 and -ln 2.
ExpLambdas == {One, Rat(2, 1), Rat(1, 2)}

ScoreSeqs == UNION {[1..n -> 0..1] : n \in 0..MaxScores}

VoteSeqs == UNION {[1..n -> 0..2] : n \in 0..MaxScores}

MinProbs == {Rat(1, 2), Rat(9, 10), Threshold, One}

\* The iterator pairs a caller passes for a sequence: the whole of it, or its
\* two ends exchanged (an inverted range unless the sequence is empty).
Ranges(s) == {<<0, Len(s)>>, <<Len(s), 0>>}

NoCall ==
    [op |-> "none", ret |-> S_EXPLORATION_OK, pre |-> <<>>,
     pdf_first |-> 0, pdf_last |-> 0,
     epsilon |-> Zero, top_action |-> 0,
     exp_lambda |-> One, scores |-> <<>>, scores_begin |-> 0, scores_last |-> 0,
     top_actions |-> <<>>,
     min_prob |-> Zero, update_zero_elements |-> FALSE,
     branch |-> "none", touched_mass |-> Zero, untouched_mass |-> Zero,
     num_actions_touched |-> 0]

Init ==
    /\ pdf \in Buffers
    /\ call = NoCall

EpsilonGreedy ==
    /\ call.op = "none"
    /\ \E epsilon \in Epsilons, top_action \in 0..MaxLen, r \in Ranges(pdf) :
         LET out == generate_epsilon_greedy(epsilon, top_action, pdf, r[1], r[2]) IN
         /\ pdf' = out.pdf
         /\ call' = [NoCall EXCEPT !.op = "epsilon_greedy", !.ret = out.ret, !.pre = pdf,
                                   !.pdf_first = r[1], !.pdf_last = r[2],
                                   !.epsilon = epsilon, !.top_action = top_action]

Softmax ==
    /\ call.op = "none"
    /\ \E exp_lambda \in ExpLambdas, scores \in ScoreSeqs, r \in Ranges(pdf) :
         \E sr \in Ranges(scores) :
         LET out == generate_softmax(exp_lambda, scores, sr[1], sr[2], pdf, r[1], r[2]) IN
         /\ pdf' = out.pdf
         /\ call' = [NoCall EXCEPT !.op = "softmax", !.ret = out.ret, !.pre = pdf,
                                   !.pdf_first = r[1], !.pdf_last = r[2],
                                   !.exp_lambda = exp_lambda, !.scores = scores,
                                   !.scores_begin = sr[1], !.scores_last = sr[2]]

Bag ==
    /\ call.op = "none"
    /\ \E top_actions \in VoteSeqs, r \in Ranges(pdf) :
         LET out == generate_bag(top_actions, pdf, r[1], r[2]) IN
         /\ pdf' = out.pdf
         /\ call' = [NoCall EXCEPT !.op = "bag", !.ret = out.ret, !.pre = pdf,
                                   !.pdf_first = r[1], !.pdf_last = r[2],
                                   !.top_actions = top_actions]

\* The record of a call enforce_minimum_probability(min_prob,
\* update_zero_elements, pdf + first, pdf + last) made on the buffer pdf.
Enforced(min_prob, update_zero_elements, first, last) ==
    LET out == enforce_minimum_probability(min_prob, update_zero_elements,
                                           pdf, first, last) IN
    /\ pdf' = out.pdf
    /\ call' = [NoCall EXCEPT !.op = "enforce", !.ret = out.ret, !.pre = pdf,
                              !.pdf_first = first, !.pdf_last = last,
                              !.min_prob = min_prob,
                              !.update_zero_elements = update_zero_elements,
                              !.branch = out.branch,
                              !.touched_mass = out.touched_mass,
                              !.untouched_mass = out.untouched_mass,
                              !.num_actions_touched = out.num_actions_touched]

EnforceMinimumProbability ==
    /\ call.op # "enforce"
    /\ call.ret = S_EXPLORATION_OK
    /\ \E min_prob \in MinProbs, update_zero_elements \in BOOLEAN, r \in Ranges(pdf) :
         Enforced(min_prob, update_zero_elements, r[1], r[2])

ReapplyMinimumProbability ==
    /\ call.op = "enforce"
    /\ call.ret = S_EXPLORATION_OK
    /\ Enforced(call.min_prob, call.update_zero_elements, call.pdf_first, call.pdf_last)

Next ==
    \/ EpsilonGreedy
    \/ Softmax
    \/ Bag
    \/ EnforceMinimumProbability
    \/ ReapplyMinimumProbability

Spec == Init /\ [][Next]_vars

\* ------------------------------------------------------------- properties
\* The latest call was made on a PDF range that is not inverted.
Forward == call.pdf_first <= call.pdf_last

\* N, the length of the PDF range of the latest call.
N == call.pdf_last - call.pdf_first

\* M, the length of the score range of the latest call.
M == call.scores_last - call.scores_begin

\* The PDF range of the latest call, before it and after it.
Before == Range(call.pre, call.pdf_first, call.pdf_last)
After == Range(pdf, call.pdf_first, call.pdf_last)

\* A distribution: non-negative entries that sum to 1.
IsDistribution(p) ==
    /\ Len(p) > 0
    /\ \A k \in 1..Len(p) : RLe(Zero, p[k])
    /\ RSum(p) = One

\* The latest call is enforce_minimum_probability on a distribution and returned OK.
EnforcedDistribution ==
    /\ call.op = "enforce"
    /\ call.ret = S_EXPLORATION_OK
    /\ Forward
    /\ IsDistribution(Before)

\* ... on the general path (0 < min_prob <= 0.999).
GeneralPath == RLt(Zero, call.min_prob) /\ RLe(call.min_prob, Threshold)

\* Entry k may receive mass: it was > 0 before the call, or update_zero_elements.
EligibleBefore(k) == RGt(Before[k], Zero) \/ call.update_zero_elements

\* C1: after enforce_minimum_probability with min_prob in (0, 0.999] on a
\* distribution of length N, every eligible entry is at least min_prob / N,
\* the entries scaled by ratio included.
C1_EligibleAtLeastFloor ==
    (EnforcedDistribution /\ GeneralPath) =>
        \A k \in 1..N :
            EligibleBefore(k) => RLe(RDiv(call.min_prob, Rat(N, 1)), After[k])

\* C2: a second enforce_minimum_probability with the same min_prob and
\* update_zero_elements, on the result of a first one made on a distribution,
\* leaves every entry of the PDF unchanged.
C2_Idempotent ==
    [][(/\ EnforcedDistribution
        /\ call'.op = "enforce"
        /\ call'.min_prob = call.min_prob
        /\ call'.update_zero_elements = call.update_zero_elements
        /\ call'.pdf_first = call.pdf_first
        /\ call'.pdf_last = call.pdf_last
        /\ call'.pre = pdf)
       => pdf' = pdf]_vars

\* No range of the latest call is inverted.
NoRangeInverted == Forward /\ call.scores_begin <= call.scores_last

\* C3: every operation returns EmptyPdf when no range is inverted and the PDF
\* has length 0; generate_softmax whenever the overlap min(M, N) is 0.
C3_EmptyPdf ==
    (/\ call.op # "none"
     /\ NoRangeInverted
     /\ \/ N = 0
        \/ call.op = "softmax" /\ Min(M, N) = 0)
    => call.ret = E_EXPLORATION_EMPTY_PDF

\* C4: whenever generate_bag returns OK on a PDF of length N > 0, every entry
\* of the PDF is >= 0 and the N entries sum to 1.
C4_BagIsDistribution ==
    (call.op = "bag" /\ call.ret = S_EXPLORATION_OK /\ N > 0) => IsDistribution(After)

\* C5: after enforce_minimum_probability with min_prob in (0, 0.999] on a
\* distribution, the entries of the PDF still sum to 1.
C5_MassPreserved ==
    (EnforcedDistribution /\ GeneralPath) => RSum(After) = One

\* C5 witness: the ratio branch ran with part of the mass above the floor, and
\* changed the PDF.
C5_Witness ==
    /\ EnforcedDistribution /\ GeneralPath
    /\ call.branch = "ratio"
    /\ call.untouched_mass # One
    /\ pdf # call.pre
    /\ \E k \in 1..N : RGt(Before[k], After[k]) /\ RGt(After[k], Zero)

\* C6: for N > 0 generate_epsilon_greedy returns OK with epsilon/N + (1 - epsilon)
\* at index min(top_action, N - 1), epsilon/N at every other index, and sum 1.
C6_EpsilonGreedy ==
    (call.op = "epsilon_greedy" /\ Forward /\ N > 0) =>
        /\ call.ret = S_EXPLORATION_OK
        /\ \A k \in 1..N :
             After[k] = IF k - 1 = Min(call.top_action, N - 1)
                        THEN RAdd(RDiv(call.epsilon, Rat(N, 1)), RSub(One, call.epsilon))
                        ELSE RDiv(call.epsilon, Rat(N, 1))
        /\ RSum(After) = One

\* C6 witness: a top_action beyond the buffer was clamped to the last of
\* several actions, with mass on both kinds of entry.
C6_Witness ==
    /\ call.op = "epsilon_greedy" /\ Forward /\ N >= 2
    /\ call.top_action >= N
    /\ call.epsilon = Rat(1, 2)
    /\ RGt(After[N], After[1])

\* The weight of score k of the latest call, with no maximum subtracted.
Weight(k) == Exp(call.exp_lambda, call.scores[call.scores_begin + k])

\* C7: generate_softmax on M scores and N PDF entries, M # N and min(M, N) > 0,
\* returns OK, leaves exactly 0 at every index >= min(M, N), and the first
\* min(M, N) entries are the weights of the first min(M, N) scores divided by
\* their sum: they sum to 1 and are 1/min(M, N) each when lambda = 0.
C7_SoftmaxMismatch ==
    (call.op = "softmax" /\ NoRangeInverted /\ M # N /\ Min(M, N) > 0) =>
        LET n == Min(M, N)
            total == RSum([k \in 1..n |-> Weight(k)])
        IN /\ call.ret = S_EXPLORATION_OK
           /\ \A k \in (n + 1)..N : After[k] = Zero
           /\ \A k \in 1..n : After[k] = RDiv(Weight(k), total)
           /\ RSum(Range(After, 0, n)) = One
           /\ call.exp_lambda = One => \A k \in 1..n : After[k] = Rat(1, n)

\* C7 witness: fewer scores than PDF entries, unequal scores, lambda # 0, and a
\* nonzero entry beyond the overlap before the call.
C7_Witness ==
    /\ call.op = "softmax" /\ NoRangeInverted
    /\ M >= 2 /\ M < N
    /\ call.exp_lambda # One
    /\ call.scores[1] # call.scores[2]
    /\ Before[N] # Zero
    /\ After[N] = Zero

\* C7 witness of the other direction: more scores than PDF entries.
C7_WitnessMoreScores ==
    /\ call.op = "softmax" /\ NoRangeInverted
    /\ N >= 1 /\ M > N
    /\ call.ret = S_EXPLORATION_OK

\* C8: enforce_minimum_probability with min_prob > 0.999 on N > 0 non-negative
\* entries returns OK with 1/support_size at every eligible entry (all of them
\* if update_zero_elements, otherwise those that were > 0), support_size being
\* the number of eligible entries, and 0 at every other entry.
C8_Uniform ==
    (/\ call.op = "enforce" /\ Forward /\ N > 0
     /\ RGt(call.min_prob, Threshold)
     /\ \A k \in 1..N : RLe(Zero, Before[k]))
    => LET support == Cardinality({k \in 1..N : EligibleBefore(k)}) IN
       /\ call.ret = S_EXPLORATION_OK
       /\ \A k \in 1..N :
            After[k] = IF EligibleBefore(k) THEN Rat(1, support) ELSE Zero

\* C8 witness: the uniform path without update_zero_elements, on a PDF with
\* both zero and nonzero entries.
C8_Witness ==
    /\ call.op = "enforce" /\ Forward /\ N >= 3
    /\ RGt(call.min_prob, Threshold)
    /\ ~call.update_zero_elements
    /\ \E j, k \in 1..N : j # k /\ Before[j] = Zero /\ RGt(Before[k], Zero)
                          /\ After[k] = Rat(1, N - 1)

\* C9: when an operation returns BadRange or EmptyPdf, every entry of the
\* caller's buffer has the value it had before the call.
C9_ErrorLeavesPdf ==
    (call.op # "none" /\ call.ret # S_EXPLORATION_OK) => pdf = call.pre

\* C10: on the general path (min_prob <= 0.999) touched_mass equals
\* num_actions_touched * min_prob / N, which is at most min_prob and so at most
\* 0.999: the correction pass never runs, only the ratio branch or no change.
C10_NoCorrectionPass ==
    (/\ call.op = "enforce" /\ call.ret = S_EXPLORATION_OK
     /\ RLe(call.min_prob, Threshold))
    => /\ call.touched_mass =
            RMul(Rat(call.num_actions_touched, 1), RDiv(call.min_prob, Rat(N, 1)))
       /\ RLe(call.touched_mass, call.min_prob)
       /\ RLe(call.touched_mass, Threshold)
       /\ call.branch \in {"ratio", "unchanged"}

\* C10 witness: every one of several entries was raised with min_prob = 0.999,
\* so touched_mass reached 0.999 itself and the ratio branch was still taken.
C10_Witness ==
    /\ call.op = "enforce" /\ call.ret = S_EXPLORATION_OK
    /\ call.min_prob = Threshold
    /\ N >= 2
    /\ call.num_actions_touched = N
    /\ call.touched_mass = Threshold
    /\ call.branch = "ratio"

====
